---- MODULE Spec2Model ----
(***************************************************************************)
(* Model of scenarios/detection/11_exploring_hyperparameters_on_azureml:   *)
(* the notebook's parameter cell, the grid-search space it hands to        *)
(* Hyperdrive, the sweep it submits and waits for, the selection of the    *)
(* best child run, and the training script train.py the notebook writes.   *)
(*                                                                         *)
(* Learning rates are integers in units of 1e-4 (1e-4 = 1, 3e-4 = 3, ...). *)
(* A child's "metrics" is the list of values it logged under the primary   *)
(* metric name: <<>> is the notebook output's 'best_primary_metric': None. *)
(***************************************************************************)
EXTENDS Naturals, Sequences, FiniteSets

VARIABLES
    param_sampling,        \* the search space: <<[name, values], ...>>
    max_concurrent_runs,   \* HyperDriveConfig.max_concurrent_runs (= MAX_NODES)
    primary_metric_goal,   \* "maximize" or "minimize"
    pc,                    \* the notebook cell that runs next
    grid,                  \* the Grid Points of the submitted sweep
    children,              \* the child runs, by run number (_0 is children[1])
    best_run,              \* run number + 1 of the selected best run, 0 if none
    sorted_children,       \* result of get_children_sorted_by_primary_metric
    best_parameters,       \* the notebook's best_parameters: flag -> value
    argv,                  \* train.py: the command line, flag -> token
    params,                \* train.py: vars(args), dest -> value
    acc,                   \* train.py: <<>> until training computed it
    run_log,               \* train.py: the run.log entries, in order
    tpc,                   \* train.py: the statement that runs next
    run_status             \* train.py: the status of its run

sweepVars == <<param_sampling, max_concurrent_runs, primary_metric_goal, pc,
               grid, children, best_run, sorted_children, best_parameters>>

trainVars == <<argv, params, acc, run_log, tpc, run_status>>

vars == <<sweepVars, trainVars, best_parameters>>

----------------------------------------------------------------------------
(* Bounds of the model *)

MaxNodes == 2          \* max_concurrent_runs ranges over 1..MaxNodes
MaxMetric == 2         \* primary metric values range over 1..MaxMetric
MaxCandidates == 3     \* SpecGrid: candidate values per parameter
MaxParams == 3         \* SpecGrid: number of parameters of the space
MaxGiven == 2          \* SpecTrain: optional flags on the command line

Metrics == 1..MaxMetric

\* The candidate lists of 1..n values the grid generator is explored on:
\* 1..m in ascending and in descending order, without a repeated value.
CandidateSeqs(n) ==
    UNION {{[i \in 1..m |-> i], [i \in 1..m |-> m + 1 - i]} : m \in 1..n}

\* The notebook's parameter cell.
MAX_NODES == 8
LEARNING_RATES == <<1, 3, 10, 30, 100>>
IM_MAX_SIZES == <<600>>

\* The values of the parameter cell the sweep is explored on.
LEARNING_RATES_Choices == {<<1>>, <<1, 3>>, <<3, 1>>}
IM_MAX_SIZES_Choices == {<<600>>, <<600, 1333>>}

----------------------------------------------------------------------------
(* Parameter grid: GridParameterSampling over choice(...) lists *)

SearchSpace(learning_rates, im_max_sizes) ==
    << [name |-> "--learning_rate", values |-> learning_rates],
       [name |-> "--max_size", values |-> im_max_sizes] >>

\* Faulty variant: pairs the candidates position by position instead of combining
\* every value of the first parameter with every combination of the rest.
RECURSIVE GridPointsZipped(_)
GridPointsZipped(space) ==
    IF space = <<>> THEN << <<>> >>
    ELSE LET head == Head(space)
             rest == GridPointsZipped(Tail(space))
             n == Len(rest)
         IN  [k \in 1..Len(head.values) |->
                << [name |-> head.name, value |-> head.values[k]] >>
                \o rest[((k - 1) % n) + 1]]

\* All combinations, the first parameter varying slowest.
RECURSIVE GridPoints(_)
GridPoints(space) ==
    IF space = <<>> THEN << <<>> >>
    ELSE LET head == Head(space)
             rest == GridPoints(Tail(space))
             n == Len(rest)
         IN  [k \in 1..(Len(head.values) * n) |->
                << [name |-> head.name,
                    value |-> head.values[((k - 1) \div n) + 1]] >>
                \o rest[((k - 1) % n) + 1]]

----------------------------------------------------------------------------
(* Child runs *)

Terminal(r) == r.status \in {"Completed", "Failed"}

Active(cs) == {i \in DOMAIN cs : cs[i].status \in {"Queued", "Running"}}

RunningRuns(cs) == {i \in DOMAIN cs : cs[i].status = "Running"}

\* Faulty variant: one slot too few, so that a limit of 1 admits no child.
CanCreateOneSlotLess(cs, limit) == Cardinality(Active(cs)) + 1 < limit

\* Faulty variant: the service ignores max_concurrent_runs.
CanCreateUnthrottled(cs, limit) == TRUE

\* A new child run is created only while fewer than max_concurrent_runs
\* children are active.
CanCreate(cs, limit) == Cardinality(Active(cs)) < limit

\* Faulty variant: every child is given the first Grid Point again.
NextPointFirstAgain(g, cs) == g[1]

\* Faulty variant: children take the Grid Points from the end of the grid.
NextPointFromEnd(g, cs) == g[Len(g) - Len(cs)]

\* Child run number Len(cs) gets the next Grid Point in generation order.
NextPoint(g, cs) == g[Len(cs) + 1]

\* Faulty variant: the sweep is taken to be over as soon as no child is running.
SweepFinishedNoneRunning(g, cs) == RunningRuns(cs) = {}

\* The parent run is over once every Grid Point has run to a terminal state.
SweepFinished(g, cs) ==
    /\ Len(cs) = Len(g)
    /\ \A i \in DOMAIN cs : Terminal(cs[i])

HasMetric(cs) == {i \in DOMAIN cs : cs[i].metrics # <<>>}

Better(goal, a, b) == IF goal = "maximize" THEN a >= b ELSE a <= b

\* The runs of `among` whose primary metric is extremal within `among`.
Extremal(goal, cs, among) ==
    {i \in among :
        \A j \in among : Better(goal, cs[i].metrics[1], cs[j].metrics[1])}

\* What get_best_run_by_primary_metric() may return. The notebook passes no
\* arguments; whether the service looks at a run's status, and which of two
\* runs with equal metric it prefers, is not decided by the notebook, so
\* both are left open.
BestRunCandidates(goal, cs) ==
    Extremal(goal, cs, HasMetric(cs))
    \cup Extremal(goal, cs,
                  {i \in HasMetric(cs) : cs[i].status = "Completed"})

Permutations(n) ==
    {p \in [1..n -> 1..n] : \A i, j \in 1..n : i # j => p[i] # p[j]}

\* What get_children_sorted_by_primary_metric() may return: every child
\* once, a child with a metric never after a better one's successor, and
\* the children without a metric last. The order among equal metrics is
\* left open.
SortedCandidates(goal, cs) ==
    {p \in Permutations(Len(cs)) :
        \A a, b \in 1..Len(cs) :
            a < b =>
                \/ cs[p[b]].metrics = <<>>
                \/ /\ cs[p[a]].metrics # <<>>
                   /\ Better(goal, cs[p[a]].metrics[1], cs[p[b]].metrics[1])}

----------------------------------------------------------------------------
(* train.py: values, the argument parser and the log entries *)

\* A value is [t, v]: its Python type and its printed form.
None == [t |-> "None", v |-> ""]

ParseError == [t |-> "error", v |-> ""]

\* The tokens a flag is given on the command line.
Tokens == {"600", "1e-2", "abc"}

\* type=str, type=int and type=float of argparse applied to a token.
ParseValue(type, token) ==
    CASE type = "str" -> [t |-> "str", v |-> token]
      [] type = "int" ->
            IF token = "600" THEN [t |-> "int", v |-> "600"] ELSE ParseError
      [] type = "float" ->
            IF token = "600" THEN [t |-> "float", v |-> "600.0"]
            ELSE IF token = "1e-2" THEN [t |-> "float", v |-> "0.01"]
            ELSE ParseError

Int(text) == [t |-> "int", v |-> text]

Float(text) == [t |-> "float", v |-> text]

\* parser.add_argument(flag, type=, dest=, default=), in the script's order.
Arguments == <<
    [flag |-> "--data-folder", type |-> "str", dest |-> "data_dir",
     default |-> None],
    [flag |-> "--data-subfolder", type |-> "str", dest |-> "data_subfolder",
     default |-> None],
    [flag |-> "--epochs", type |-> "int", dest |-> "epochs",
     default |-> Int("20")],
    [flag |-> "--batch_size", type |-> "int", dest |-> "batch_size",
     default |-> Int("2")],
    [flag |-> "--learning_rate", type |-> "float", dest |-> "learning_rate",
     default |-> Float("0.0001")],
    [flag |-> "--min_size", type |-> "int", dest |-> "min_size",
     default |-> Int("800")],
    [flag |-> "--max_size", type |-> "int", dest |-> "max_size",
     default |-> Int("1333")],
    [flag |-> "--rpn_pre_nms_top_n_train", type |-> "int",
     dest |-> "rpn_pre_nms_top_n_train", default |-> Int("2000")],
    [flag |-> "--rpn_pre_nms_top_n_test", type |-> "int",
     dest |-> "rpn_pre_nms_top_n_test", default |-> Int("1000")],
    [flag |-> "--rpn_post_nms_top_n_train", type |-> "int",
     dest |-> "rpn_post_nms_top_n_train", default |-> Int("2000")],
    [flag |-> "--rpn_post_nms_top_n_test", type |-> "int",
     dest |-> "rpn_post_nms_top_n_test", default |-> Int("1000")],
    [flag |-> "--rpn_nms_thresh", type |-> "float",
     dest |-> "rpn_nms_thresh", default |-> Float("0.7")],
    [flag |-> "--box_score_thresh", type |-> "float",
     dest |-> "box_score_thresh", default |-> Float("0.05")],
    [flag |-> "--box_nms_thresh", type |-> "float",
     dest |-> "box_nms_thresh", default |-> Float("0.5")],
    [flag |-> "--box_detections_per_img", type |-> "int",
     dest |-> "box_detections_per_img", default |-> Int("100")] >>

ArgumentSet == {Arguments[k] : k \in DOMAIN Arguments}

Flags == {a.flag : a \in ArgumentSet}

Dests == {a.dest : a \in ArgumentSet}

DataFlags == {"--data-folder", "--data-subfolder"}

ArgumentOfDest(d) == CHOOSE a \in ArgumentSet : a.dest = d

\* args = parser.parse_args(); params = vars(args)
ParseArgs(cmdline) ==
    [d \in Dests |->
        LET a == ArgumentOfDest(d)
        IN  IF a.flag \in DOMAIN cmdline
            THEN ParseValue(a.type, cmdline[a.flag])
            ELSE a.default]

\* The values detector.ap[-1] takes.
AccuracyValues == {"0.47", "0.89"}

\* Faulty variant: the min_size entry is written from params["max_size"].
LogEntriesMinFromMax == <<
    [name |-> "accuracy", dest |-> "acc"],
    [name |-> "data_dir", dest |-> "data_dir"],
    [name |-> "epochs", dest |-> "epochs"],
    [name |-> "batch_size", dest |-> "batch_size"],
    [name |-> "learning_rate", dest |-> "learning_rate"],
    [name |-> "min_size", dest |-> "max_size"],
    [name |-> "max_size", dest |-> "max_size"],
    [name |-> "rpn_pre_nms_top_n_train", dest |-> "rpn_pre_nms_top_n_train"],
    [name |-> "rpn_pre_nms_top_n_test", dest |-> "rpn_pre_nms_top_n_test"],
    [name |-> "rpn_post_nms_top_n_train", dest |-> "rpn_post_nms_top_n_train"],
    [name |-> "rpn_post_nms_top_n_test", dest |-> "rpn_post_nms_top_n_test"],
    [name |-> "rpn_nms_thresh", dest |-> "rpn_nms_thresh"],
    [name |-> "box_score_thresh", dest |-> "box_score_thresh"],
    [name |-> "box_nms_thresh", dest |-> "box_nms_thresh"],
    [name |-> "box_detections_per_img", dest |-> "box_detections_per_img"] >>

\* The run.log(name, ...) calls, in the script's order; dest "acc" is the
\* local variable acc, every other dest is params[dest].
LogEntries == <<
    [name |-> "accuracy", dest |-> "acc"],
    [name |-> "data_dir", dest |-> "data_dir"],
    [name |-> "epochs", dest |-> "epochs"],
    [name |-> "batch_size", dest |-> "batch_size"],
    [name |-> "learning_rate", dest |-> "learning_rate"],
    [name |-> "min_size", dest |-> "min_size"],
    [name |-> "max_size", dest |-> "max_size"],
    [name |-> "rpn_pre_nms_top_n_train", dest |-> "rpn_pre_nms_top_n_train"],
    [name |-> "rpn_pre_nms_top_n_test", dest |-> "rpn_pre_nms_top_n_test"],
    [name |-> "rpn_post_nms_top_n_train", dest |-> "rpn_post_nms_top_n_train"],
    [name |-> "rpn_post_nms_top_n_test", dest |-> "rpn_post_nms_top_n_test"],
    [name |-> "rpn_nms_thresh", dest |-> "rpn_nms_thresh"],
    [name |-> "box_score_thresh", dest |-> "box_score_thresh"],
    [name |-> "box_nms_thresh", dest |-> "box_nms_thresh"],
    [name |-> "box_detections_per_img", dest |-> "box_detections_per_img"] >>

\* The train.py variables while no train.py is being followed.
TrainIdle ==
    /\ argv = <<>>
    /\ params = <<>>
    /\ acc = <<>>
    /\ run_log = <<>>
    /\ tpc = "idle"
    /\ run_status = "Queued"

----------------------------------------------------------------------------
(* The arguments of a child run and best_parameters *)

Str(text) == [t |-> "str", v |-> text]

\* ds.as_mount(): a reference to the workspace's default datastore.
DataReference(datastore) == [t |-> "DataReference", v |-> datastore]

\* script_params = {"--data-folder": ds.as_mount(),
\*                  "--data-subfolder": data_subfolder}
script_params ==
    << [name |-> "--data-folder", value |-> DataReference("workspaceblobstore")],
       [name |-> "--data-subfolder",
        value |-> Str("01679d79-1c47-49b8-88c3-d657f36b0c0f")] >>

\* The Python value of a Grid Point entry: learning rates are floats (held
\* in units of 1e-4), max sizes are ints.
PointValue(e) ==
    IF e.name = "--learning_rate"
    THEN Float(CASE e.value = 1 -> "0.0001"
                 [] e.value = 3 -> "0.0003"
                 [] e.value = 10 -> "0.001"
                 [] e.value = 30 -> "0.003"
                 [] e.value = 100 -> "0.01"
                 [] OTHER -> "0.0")
    ELSE Int(CASE e.value = 600 -> "600"
               [] e.value = 1333 -> "1333"
               [] OTHER -> "0")

PointParams(point) ==
    [k \in DOMAIN point |->
        [name |-> point[k].name, value |-> PointValue(point[k])]]

\* A value as it stands in a run's argument list: a string; a mounted
\* datastore stands as its $AZUREML_DATAREFERENCE_ placeholder.
ArgumentText(value) ==
    IF value.t = "DataReference"
    THEN IF value.v = "workspaceblobstore"
         THEN Str("$AZUREML_DATAREFERENCE_workspaceblobstore")
         ELSE Str("$AZUREML_DATAREFERENCE_")
    ELSE Str(value.v)

\* best_run.get_details()["runDefinition"]["arguments"]: the fixed
\* arguments, then the Grid Point, as flag, value, flag, value, ...
RunArguments(fixed, point) ==
    LET merged == fixed \o PointParams(point)
    IN  [k \in 1..(2 * Len(merged)) |->
            IF k % 2 = 1 THEN Str(merged[(k + 1) \div 2].name)
            ELSE ArgumentText(merged[k \div 2].value)]

\* Faulty variant: the flags are paired with themselves (pv[::2] twice).
BestParametersFlagsTwice(parameter_values) ==
    LET flags == [k \in 1..((Len(parameter_values) + 1) \div 2) |->
                    parameter_values[2 * k - 1]]
    IN  [key \in {flags[k].v : k \in DOMAIN flags} |->
            flags[CHOOSE k \in DOMAIN flags : flags[k].v = key]]

\* dict(zip(parameter_values[::2], parameter_values[1::2])): zip stops at
\* the shorter list, dict keeps the last value of a repeated key.
BestParameters(parameter_values) ==
    LET flags == [k \in 1..((Len(parameter_values) + 1) \div 2) |->
                    parameter_values[2 * k - 1]]
        values == [k \in 1..(Len(parameter_values) \div 2) |->
                    parameter_values[2 * k]]
        pairs == DOMAIN flags \cap DOMAIN values
    IN  [key \in {flags[k].v : k \in pairs} |->
            values[CHOOSE k \in pairs :
                        /\ flags[k].v = key
                        /\ \A j \in pairs : flags[j].v = key => j <= k]]

----------------------------------------------------------------------------
(* The sweep *)

Init ==
    /\ \E lr \in LEARNING_RATES_Choices, sz \in IM_MAX_SIZES_Choices :
            param_sampling = SearchSpace(lr, sz)
    /\ max_concurrent_runs \in 1..MaxNodes
    /\ primary_metric_goal \in {"maximize", "minimize"}
    /\ pc = "submit"
    /\ grid = <<>>
    /\ children = <<>>
    /\ best_run = 0
    /\ sorted_children = <<>>
    /\ best_parameters = <<>>
    /\ TrainIdle

\* hyperdrive_run = exp.submit(config=hyperdrive_run_config): returns at once.
Submit ==
    /\ pc = "submit"
    /\ grid' = GridPoints(param_sampling)
    /\ pc' = "wait_for_completion"
    /\ UNCHANGED <<param_sampling, max_concurrent_runs, primary_metric_goal,
                   children, best_run, sorted_children,
                   trainVars, best_parameters>>

\* The service creates the next child run.
CreateChild ==
    /\ pc # "submit"
    /\ Len(children) < Len(grid)
    /\ CanCreate(children, max_concurrent_runs)
    /\ children' = Append(children,
                          [hyperparameters |-> NextPoint(grid, children),
                           status |-> "Queued",
                           metrics |-> <<>>])
    /\ UNCHANGED <<param_sampling, max_concurrent_runs, primary_metric_goal,
                   pc, grid, best_run, sorted_children,
                   trainVars, best_parameters>>

\* A queued child gets a node and starts train.py.
StartChild ==
    \E i \in DOMAIN children :
        /\ children[i].status = "Queued"
        /\ children' = [children EXCEPT ![i].status = "Running"]
        /\ UNCHANGED <<param_sampling, max_concurrent_runs,
                       primary_metric_goal, pc, grid, best_run,
                       sorted_children,
                   trainVars, best_parameters>>

\* train.py ran to its end: the primary metric is logged.
CompleteChild ==
    \E i \in DOMAIN children, m \in Metrics :
        /\ children[i].status = "Running"
        /\ children' = [children EXCEPT ![i].status = "Completed",
                                        ![i].metrics = <<m>>]
        /\ UNCHANGED <<param_sampling, max_concurrent_runs,
                       primary_metric_goal, pc, grid, best_run,
                       sorted_children,
                   trainVars, best_parameters>>

\* A child fails: before it starts, before train.py logs the primary
\* metric, or in one of the run.log calls after it.
FailChild ==
    \E i \in DOMAIN children :
        /\ \/ /\ children[i].status \in {"Queued", "Running"}
              /\ children' = [children EXCEPT ![i].status = "Failed"]
           \/ /\ children[i].status = "Running"
              /\ \E m \in Metrics :
                    children' = [children EXCEPT ![i].status = "Failed",
                                                 ![i].metrics = <<m>>]
        /\ UNCHANGED <<param_sampling, max_concurrent_runs,
                       primary_metric_goal, pc, grid, best_run,
                       sorted_children,
                   trainVars, best_parameters>>

\* hyperdrive_run.wait_for_completion() returns.
WaitReturn ==
    /\ pc = "wait_for_completion"
    /\ SweepFinished(grid, children)
    /\ pc' = "get_best_run"
    /\ UNCHANGED <<param_sampling, max_concurrent_runs, primary_metric_goal,
                   grid, children, best_run, sorted_children,
                   trainVars, best_parameters>>

\* best_run = hyperdrive_run.get_best_run_by_primary_metric() and the uses
\* of best_run that follow it in the cell.
GetBestRun ==
    /\ pc = "get_best_run"
    /\ IF BestRunCandidates(primary_metric_goal, children) = {}
       THEN /\ pc' = "error"
            /\ best_run' = best_run
            /\ best_parameters' = best_parameters
       ELSE /\ pc' = "get_children_sorted"
            /\ best_run' \in BestRunCandidates(primary_metric_goal, children)
            /\ best_parameters' =
                    BestParameters(
                        RunArguments(script_params,
                                     children[best_run'].hyperparameters))
    /\ UNCHANGED <<param_sampling, max_concurrent_runs, primary_metric_goal,
                   grid, children, sorted_children,
                   trainVars>>

\* hyperdrive_run.get_children_sorted_by_primary_metric()
GetChildrenSorted ==
    /\ pc = "get_children_sorted"
    /\ sorted_children' \in SortedCandidates(primary_metric_goal, children)
    /\ pc' = "done"
    /\ UNCHANGED <<param_sampling, max_concurrent_runs, primary_metric_goal,
                   grid, children, best_run,
                   trainVars, best_parameters>>

Next ==
    \/ Submit
    \/ CreateChild
    \/ StartChild
    \/ CompleteChild
    \/ FailChild
    \/ WaitReturn
    \/ GetBestRun
    \/ GetChildrenSorted

Spec == Init /\ [][Next]_vars

\* The sweep up to the return of wait_for_completion(), with the notebook
\* running its cells, the service creating and starting children while it
\* may, and every started train.py ending.
NextSweep ==
    \/ Submit
    \/ CreateChild
    \/ StartChild
    \/ CompleteChild
    \/ FailChild
    \/ WaitReturn

SpecLive ==
    /\ Init
    /\ [][NextSweep]_vars
    /\ WF_vars(Submit)
    /\ WF_vars(CreateChild)
    /\ WF_vars(StartChild)
    /\ WF_vars(CompleteChild \/ FailChild)
    /\ WF_vars(WaitReturn)

----------------------------------------------------------------------------
(* The grid generator on its own, over every space within the bounds *)

ParamNames == <<"--learning_rate", "--max_size", "--min_size", "--epochs",
                "--batch_size">>

Spaces(n) ==
    {[k \in 1..n |-> [name |-> ParamNames[k], values |-> vs[k]]] :
        vs \in [1..n -> CandidateSeqs(MaxCandidates)]}

InitGrid ==
    /\ \/ \E n \in 1..MaxParams : param_sampling \in Spaces(n)
       \/ param_sampling = SearchSpace(LEARNING_RATES, IM_MAX_SIZES)
    /\ max_concurrent_runs = MAX_NODES
    /\ primary_metric_goal = "maximize"
    /\ pc = "submit"
    /\ grid = <<>>
    /\ children = <<>>
    /\ best_run = 0
    /\ sorted_children = <<>>
    /\ best_parameters = <<>>
    /\ TrainIdle

SpecGrid == InitGrid /\ [][Submit]_vars

----------------------------------------------------------------------------
(* One run of train.py *)

\* The tokens a flag is given on the explored command lines.
TokensOf(flag) == IF flag \in DataFlags THEN {"abc"} ELSE Tokens

CommandLines(D) == {c \in [D -> Tokens] : \A f \in D : c[f] \in TokensOf(f)}

InitTrain ==
    /\ param_sampling = SearchSpace(LEARNING_RATES, IM_MAX_SIZES)
    /\ max_concurrent_runs = MAX_NODES
    /\ primary_metric_goal = "maximize"
    /\ pc = "wait_for_completion"
    /\ grid = <<>>
    /\ children = <<>>
    /\ best_run = 0
    /\ sorted_children = <<>>
    /\ best_parameters = <<>>
    /\ \E D \in SUBSET Flags :
            /\ Cardinality(D \ DataFlags) <= MaxGiven
            /\ argv \in CommandLines(D)
    /\ params = <<>>
    /\ acc = <<>>
    /\ run_log = <<>>
    /\ tpc = "parse_args"
    /\ run_status = "Running"

\* A statement raised, or argparse exited: the run is Failed.
Raise ==
    /\ tpc' = "exit"
    /\ run_status' = "Failed"

\* args = parser.parse_args(); params = vars(args)
TrainParseArgs ==
    /\ tpc = "parse_args"
    /\ LET p == ParseArgs(argv)
       IN  IF \E d \in Dests : p[d] = ParseError
           THEN Raise /\ UNCHANGED params
           ELSE /\ params' = p
                /\ tpc' = "load_data"
                /\ UNCHANGED run_status
    /\ UNCHANGED <<sweepVars, argv, acc, run_log>>

\* data_path = os.path.join(...); data = DetectionDataset(...)
TrainLoadData ==
    /\ tpc = "load_data"
    /\ IF params["data_dir"] = None \/ params["data_subfolder"] = None
       THEN Raise
       ELSE \/ Raise
            \/ tpc' = "fit" /\ UNCHANGED run_status
    /\ UNCHANGED <<sweepVars, argv, params, acc, run_log>>

\* model = ...; detector.fit(...); acc = float(detector.ap[-1])
TrainFit ==
    /\ tpc = "fit"
    /\ \/ Raise /\ UNCHANGED acc
       \/ /\ \E a \in AccuracyValues : acc' = <<Float(a)>>
          /\ tpc' = "log"
          /\ UNCHANGED run_status
    /\ UNCHANGED <<sweepVars, argv, params, run_log>>

\* The next run.log call: it writes its entry or raises.
TrainLog ==
    /\ tpc = "log"
    /\ Len(run_log) < Len(LogEntries)
    /\ LET e == LogEntries[Len(run_log) + 1]
           value == IF e.dest = "acc" THEN acc[1] ELSE params[e.dest]
       IN  \/ /\ run_log' = Append(run_log, [name |-> e.name, value |-> value])
              /\ UNCHANGED <<tpc, run_status>>
           \/ Raise /\ UNCHANGED run_log
    /\ UNCHANGED <<sweepVars, argv, params, acc>>

\* The script ends: the run is Completed.
TrainEnd ==
    /\ tpc = "log"
    /\ Len(run_log) = Len(LogEntries)
    /\ tpc' = "exit"
    /\ run_status' = "Completed"
    /\ UNCHANGED <<sweepVars, argv, params, acc, run_log>>

NextTrain ==
    \/ TrainParseArgs
    \/ TrainLoadData
    \/ TrainFit
    \/ TrainLog
    \/ TrainEnd

SpecTrain == InitTrain /\ [][NextTrain]_vars

----------------------------------------------------------------------------
(* Properties *)

RECURSIVE ProductOfCardinalities(_)
ProductOfCardinalities(space) ==
    IF space = <<>> THEN 1
    ELSE Len(Head(space).values) * ProductOfCardinalities(Tail(space))

EntriesNamed(name) == {k \in DOMAIN run_log : run_log[k].name = name}

\* The value of an argument: the one given on the command line, parsed, or
\* its default.
ValueUsed(a) ==
    IF a.flag \in DOMAIN argv THEN ParseValue(a.type, argv[a.flag])
    ELSE a.default

LoggedOnce(a) ==
    /\ Cardinality(EntriesNamed(a.dest)) = 1
    /\ \A k \in EntriesNamed(a.dest) : run_log[k].value = ValueUsed(a)

\* C10 as stated: a train.py run that is Completed has logged "accuracy"
\* exactly once and one entry for each of the CLI parameters of train.py,
\* with the value the run was given or the default.
C10_EveryParameterLogged ==
    run_status = "Completed" =>
        /\ Cardinality(EntriesNamed("accuracy")) = 1
        /\ \A a \in ArgumentSet : LoggedOnce(a)

\* C10 as amended: a train.py run that is Completed has logged "accuracy"
\* exactly once, with the value training computed, and one entry for each
\* CLI parameter of train.py other than --data-subfolder, with the value
\* the run was given or the default; data_subfolder is not logged.
C10_ParametersLoggedExceptSubfolder ==
    run_status = "Completed" =>
        /\ Cardinality(EntriesNamed("accuracy")) = 1
        /\ \A k \in EntriesNamed("accuracy") : run_log[k].value = acc[1]
        /\ \A a \in ArgumentSet :
                IF a.dest = "data_subfolder"
                THEN EntriesNamed(a.dest) = {}
                ELSE LoggedOnce(a)

\* A Completed run that was given a learning rate and a max size and took
\* the default of every other optional parameter.
C10_Witness ==
    /\ run_status = "Completed"
    /\ DOMAIN argv = DataFlags \cup {"--learning_rate", "--max_size"}
    /\ argv["--learning_rate"] = "1e-2"
    /\ argv["--max_size"] = "600"

\* The child runs holding Grid Point number g of the grid.
ChildrenOf(g) == {i \in DOMAIN children : children[i].hyperparameters = grid[g]}

C12_OneRecordPerPoint ==
    /\ Len(children) <= Len(grid)
    /\ \A i \in DOMAIN children :
            \E g \in DOMAIN grid : children[i].hyperparameters = grid[g]
    /\ \A g \in DOMAIN grid : Cardinality(ChildrenOf(g)) <= 1
    /\ pc \in {"get_best_run", "get_children_sorted", "done", "error"} =>
            \A g \in DOMAIN grid : Cardinality(ChildrenOf(g)) = 1

C12_FailedStaysFailed ==
    \A i \in DOMAIN children :
        children[i].status = "Failed" =>
            /\ i \in DOMAIN children'
            /\ children'[i].status = "Failed"
            /\ children'[i].hyperparameters = children[i].hyperparameters

MergedParams(point) == script_params \o PointParams(point)

\* The mapping flag -> value of a merged parameter list.
AsMapping(merged) ==
    [name \in {merged[k].name : k \in DOMAIN merged} |->
        merged[CHOOSE k \in DOMAIN merged : merged[k].name = name].value]

\* The same mapping with every value in its string form.
AsTextMapping(merged) ==
    [name \in {merged[k].name : k \in DOMAIN merged} |->
        ArgumentText(
            merged[CHOOSE k \in DOMAIN merged : merged[k].name = name].value)]

\* The argument list holds the merged parameters, each exactly once, as a
\* flag followed by the string form of its value.
WellFormedArguments(arguments, merged) ==
    /\ Len(arguments) % 2 = 0
    /\ Len(arguments) = 2 * Len(merged)
    /\ \A k \in DOMAIN merged :
        /\ {j \in DOMAIN arguments :
                j % 2 = 1 /\ arguments[j] = Str(merged[k].name)} = {2 * k - 1}
        /\ arguments[2 * k] = ArgumentText(merged[k].value)

\* C15 as stated: best_parameters is exactly the mapping of the fixed
\* arguments and the Grid Point of the selected best run, every value
\* unchanged.
C15_RoundTripExact ==
    pc \in {"get_children_sorted", "done"} =>
        best_parameters =
            AsMapping(MergedParams(children[best_run].hyperparameters))

\* C15 as amended: the argument list of every child run has even length and
\* holds each fixed argument and each parameter of the run's Grid Point
\* exactly once, as a flag followed by its value in string form (a number as
\* its text, the mounted datastore as its $AZUREML_DATAREFERENCE_
\* placeholder, the data subfolder unchanged), and best_parameters maps each
\* of those flags of the selected best run to that string form.
C15_RoundTripAsText ==
    /\ \A i \in DOMAIN children :
        LET point == children[i].hyperparameters
            arguments == RunArguments(script_params, point)
        IN  /\ WellFormedArguments(arguments, MergedParams(point))
            /\ arguments[4] = script_params[2].value
    /\ pc \in {"get_children_sorted", "done"} =>
        best_parameters =
            AsTextMapping(MergedParams(children[best_run].hyperparameters))

\* The best run of a sweep over two learning rates and two max sizes was
\* selected and is not the first child run.
C15_Witness ==
    /\ pc = "get_children_sorted"
    /\ Len(grid) = 4
    /\ best_run > 1
    /\ DOMAIN best_parameters =
            {"--data-folder", "--data-subfolder", "--learning_rate",
             "--max_size"}

====
